---- MODULE Spec2Model ----
(***************************************************************************)
(* Progress-durability pipeline of the streaming service: the POST/GET     *)
(* /api/progress handlers (app.py), the Redis cache (cache_service.py),    *)
(* the PostgreSQL progress table (database.py, database_enhanced.py via    *)
(* db_adapter.py), the Firebase user_progress collection                   *)
(* (firebase_service.py) and the background ProgressSyncWorker             *)
(* (progress_sync_worker.py).                                              *)
(*                                                                         *)
(* Strings that the code builds and parses (cache keys, identifiers) are   *)
(* sequences of tokens, ":" being a token of its own, so that building a   *)
(* key is a concatenation and parsing it is a split.                       *)
(***************************************************************************)
EXTENDS Integers, Sequences, FiniteSets, TLC

\* ------------------------------------------------------------------ bounds
\* Largest value of the wall clock (time.time(), datetime.now()).
MaxTime == 1
\* Number of requests the handlers serve in one run.
MaxRequests == 2
\* Number of background threads the worker may create in one run.
MaxThreads == 1
\* Number of times the worker may be started again after a stop(), in the runs
\* that record the calls of start() and stop().
MaxRestarts == 1
\* One-second slices of the sleep between two passes (app.py starts the
\* worker with sync_interval=30; the model keeps the loop, with fewer slices).
sync_interval == 1

\* Largest value of the wall clock while media requests are served.
MaxClock == 2
\* Config.URL_EXPIRATION_SECONDS (3600 by default; the model keeps the
\* comparison with the clock, on fewer seconds).
URL_EXPIRATION_SECONDS == 1
\* CHUNK_SIZE of stream_file (1024 * 1024; the model keeps the loop, with
\* smaller chunks).
CHUNK_SIZE == 2
\* CoursesFolderEventHandler.debounce_seconds (5 in the source), the seconds
\* the watcher's clock may advance, and the filesystem events of a run.
debounce_seconds == 2
MaxElapsed == 3
MaxEvents == 2

\* ------------------------------------------------------- identities, inputs
Users == {<<"u1">>, <<"u2">>}
\* Rows of the catalog's files table: id -> (lesson_id, course_id).
CatalogFiles == {<<"f1">>}
\* File ids a request may name: catalogued ones and one the catalog lacks.
RequestFiles == CatalogFiles \cup {<<"f9">>}
Pairs == Users \X CatalogFiles
Handlers == {"h1", "h2"}
Threads == 1..(MaxThreads + MaxRestarts)
\* The caller of start()/stop() (app.py import, atexit), as an executor of
\* _sync_dirty_progress beside the background threads.
Ctl == 0
Executors == Threads \cup {Ctl}

\* request.json of POST /api/progress.
\* A JSON number whose column or field may also hold a Decimal.
Number(n) == [number |-> n]
Bodies ==
  { [progress_seconds |-> 0, progress_percentage |-> Number(0),
     completed |-> FALSE],
    [progress_seconds |-> 120, progress_percentage |-> Number(50),
     completed |-> FALSE] }

\* Python's None and a present value.
None == <<>>
Some(v) == <<v>>
IsSome(o) == o # <<>>
The(o) == o[1]

\* ------------------------------------------------------------ configuration
\* redis.Redis(..., decode_responses=True): every reply, the list KEYS
\* returns included, is text (str), not bytes.
decode_responses == TRUE
\* get_db_adapter(use_postgres=True, use_firebase_fallback=False)
use_firebase_fallback == FALSE

\* The durable stores a sample is flushed to.
Stores == {"firebase", "postgres"}

\* ------------------------------------------------------------------- state
VARIABLES
  enabled,    \* CacheService.enabled, fixed by the constructor's ping
  redis,      \* the Redis keyspace: key |-> stored (JSON) value
  pg,         \* PostgreSQL user_progress: <<user, file>> |-> None | Some(row)
  fb,         \* Firebase user_progress collection: sequence of documents
  now,        \* the wall clock
  outage,     \* backend calls (Redis, PostgreSQL, Firebase) may fail
  served,     \* requests begun so far
  handler,    \* per request handler: position and locals
  running,    \* ProgressSyncWorker.running
  thread,     \* ProgressSyncWorker.thread: 0 (None) or a thread id
  born,       \* number of threads created so far
  tpc,        \* per background thread: position in _sync_loop
  slice,      \* per background thread: slices slept in the current sleep
  cpc,        \* position of the start()/stop() caller
  pass,       \* per executor: position and locals in _sync_dirty_progress
  written,    \* history: per pair, the body of the POST that last set the
              \* cached sample and its handler ("done" once it has answered),
              \* while nothing else has touched that key; else None
  flushed,    \* history: per durable store, the sample last flushed to it and
              \* whether that flush repeated the one before; else None
  stream,     \* the media request last handled, with its response
  link,       \* the signed-URL parameters last issued; else None
  called,     \* history: the call of start() or stop() made last ("none" before
              \* the first), in the runs that record it; else "unrecorded"
  watch       \* the folder watcher: its clock, the observer's event queue, the
              \* handler's fields, and (history) the arrival times of the
              \* qualifying events and the start times of the scans

vars == <<enabled, redis, pg, fb, now, outage, served, handler, running, thread, born,
          tpc, slice, cpc, pass, written, flushed,
          stream, link, called, watch>>
\* What the progress handlers and the worker's threads never touch.
rest == <<flushed, stream, link, called, watch>>
stores == <<redis, pg, fb>>
worker == <<running, thread, born, tpc, slice, cpc, pass>>

\* ------------------------------------------------------------ value shapes
\* datetime objects, their ISO text (cache_service._serialize) and the text
\* Flask's jsonify gives them; decimal.Decimal (the DECIMAL(5,2) column
\* progress_percentage as psycopg2 returns it) and the text jsonify gives it.
Datetime(t) == [datetime |-> t]
Decimal(n) == [decimal |-> n]
IsDatetime(x) == DOMAIN x = {"datetime"}
IsDecimal(x) == DOMAIN x = {"decimal"}
\* The fields of a progress row or sample that may hold a datetime or a
\* Decimal; their values are tagged with their Python type.
TypedFields == {"last_watched", "updated_at", "progress_percentage"}

\* CacheService._serialize: json.dumps with datetime_handler as default.
\* A datetime becomes its isoformat() text; any other non-JSON object, a
\* Decimal included, makes datetime_handler raise TypeError.
SerializeRaises(value) ==
  \E k \in DOMAIN value \cap TypedFields : IsDecimal(value[k])
_serialize(value) ==
  [k \in DOMAIN value |->
     IF k \in TypedFields /\ IsDatetime(value[k])
       THEN [isoformat |-> value[k].datetime]
       ELSE value[k]]
\* CacheService._deserialize: json.loads of the stored text.
_deserialize(data) == data

\* flask.jsonify: datetime as an HTTP date, Decimal as its str().
jsonify(value) ==
  [k \in DOMAIN value |->
     IF k \in TypedFields
       THEN IF IsDatetime(value[k]) THEN [http_date |-> value[k].datetime]
            ELSE IF IsDecimal(value[k]) THEN [str |-> value[k].decimal]
            ELSE value[k]
       ELSE value[k]]

\* ---------------------------------------------------------------- the keys
\* f"progress:{user_id}:{file_id}"
cache_key(user_id, file_id) == <<"progress", ":">> \o user_id \o <<":">> \o file_id
\* f"progress:dirty:{user_id}:{file_id}"
dirty_key(user_id, file_id) ==
  <<"progress", ":", "dirty", ":">> \o user_id \o <<":">> \o file_id
\* The glob "progress:dirty:*" of redis_client.keys.
MatchesDirtyPattern(key) ==
  Len(key) >= 4 /\ SubSeq(key, 1, 4) = <<"progress", ":", "dirty", ":">>

\* str.split(':', maxsplit)
RECURSIVE split(_, _)
split(s, maxsplit) ==
  IF maxsplit = 0 \/ ~ \E i \in 1..Len(s) : s[i] = ":"
    THEN <<s>>
    ELSE LET i == CHOOSE j \in 1..Len(s) :
                    s[j] = ":" /\ \A m \in 1..(j - 1) : s[m] # ":"
         IN <<SubSeq(s, 1, i - 1)>> \o split(SubSeq(s, i + 1, Len(s)), maxsplit - 1)

\* dirty_key.decode('utf-8'): the keys are str (decode_responses), and str has
\* no decode method, so the call raises AttributeError; on bytes it is the text.
DecodeRaises == decode_responses

\* -------------------------------------------------------------- the catalog
\* EnhancedDatabaseService.get_file_by_id: the files row, or None.
FileRow(file_id) ==
  IF file_id \in CatalogFiles
    THEN Some([id |-> file_id, lesson_id |-> <<"l1">>, course_id |-> <<"c1">>])
    ELSE None

\* ------------------------------------------------------- the durable stores
\* DatabaseService.update_file_progress / EnhancedDatabaseService.update_file_progress:
\* INSERT ... ON CONFLICT (user_id, file_id) DO UPDATE of the progress columns.
PgUpsert(table, user_id, file_id, lesson_id, course_id, body, t) ==
  LET old == table[<<user_id, file_id>>]
      row == [user_id |-> user_id, file_id |-> file_id,
              lesson_id |-> IF IsSome(old) THEN The(old).lesson_id ELSE lesson_id,
              course_id |-> IF IsSome(old) THEN The(old).course_id ELSE course_id,
              progress_seconds |-> body.progress_seconds,
              progress_percentage |-> Decimal(body.progress_percentage.number),
              completed |-> body.completed,
              last_watched |-> Datetime(t),
              updated_at |-> Datetime(t)]
  IN [table EXCEPT ![<<user_id, file_id>>] = Some(row)]

\* update_user_progress without the query: every call adds a document.
FbUpdateAdding(coll, data, t) ==
  Append(coll, [user_id |-> data.user_id, file_id |-> data.file_id,
                lesson_id |-> data.lesson_id, course_id |-> data.course_id,
                progress_seconds |-> data.progress_seconds,
                progress_percentage |-> data.progress_percentage,
                completed |-> data.completed,
                last_watched |-> Datetime(t)])

\* firebase_service.update_user_progress: query by (user_id, file_id), limit 1;
\* update that document if there is one, add a document otherwise.
FbUpdate(coll, data, t) ==
  LET doc == [user_id |-> data.user_id, file_id |-> data.file_id,
              lesson_id |-> data.lesson_id, course_id |-> data.course_id,
              progress_seconds |-> data.progress_seconds,
              progress_percentage |-> data.progress_percentage,
              completed |-> data.completed,
              last_watched |-> Datetime(t)]
      hits == {i \in 1..Len(coll) :
                 coll[i].user_id = data.user_id /\ coll[i].file_id = data.file_id}
  IN IF hits # {}
       THEN LET i == CHOOSE j \in hits : \A m \in hits : j <= m
            IN [coll EXCEPT ![i] = doc]
       ELSE Append(coll, doc)

\* ---------------------------------------------------------------- the cache
\* redis_client.setex / delete on the keyspace.
RedisSet(space, key, value) ==
  [k \in DOMAIN space \cup {key} |-> IF k = key THEN value ELSE space[k]]
RedisDel(space, key) == [k \in DOMAIN space \ {key} |-> space[k]]
\* redis_client.get: the stored text, or None.
RedisGet(space, key) == IF key \in DOMAIN space THEN Some(space[key]) ELSE None

\* A backend call fails (ok = FALSE) only during an outage.
Fault(ok) == ok \/ outage

\* ------------------------------------------------------------ initial state
IdleHandler ==
  [pc |-> "idle", kind |-> "none", user_id |-> <<"u1">>, file_id |-> <<"f1">>,
   body |-> [progress_seconds |-> 0, progress_percentage |-> Number(0),
             completed |-> FALSE],
   file_info |-> None, last_updated |-> 0, progress |-> None,
   set_ok |-> FALSE, resp |-> None]
IdlePass == [pc |-> "off", todo |-> {}, synced |-> 0, failed |-> 0]

\* After construction: CacheService.__init__ has pinged Redis (enabled or not),
\* the worker object exists and is not started, the stores hold no progress.
\* CoursesFolderEventHandler.__init__ (last_scan_time = 0, pending_scan =
\* False) with an empty event queue. time.time() counts from the epoch, so the
\* first reading of the clock is more than debounce_seconds after 0.
IdleWatch ==
  [time |-> debounce_seconds, queue |-> << >>, arrived |-> 0,
   last_scan_time |-> 0, pending_scan |-> FALSE, events |-> {}, scans |-> {}]

Construction ==
  /\ enabled \in BOOLEAN
  /\ redis = << >>
  /\ pg = [p \in Pairs |-> None]
  /\ fb = << >>
  /\ now = 0
  /\ outage \in BOOLEAN
  /\ served = 0
  /\ handler = [h \in Handlers |-> IdleHandler]
  /\ running = FALSE
  /\ thread = 0
  /\ born = 0
  /\ tpc = [t \in Threads |-> "unborn"]
  /\ slice = [t \in Threads |-> 0]
  /\ cpc = "idle"
  /\ pass = [e \in Executors |-> IdlePass]
  /\ written = [p \in Pairs |-> None]
  /\ flushed = [store \in Stores |-> None]
  /\ stream = [kind |-> "idle"]
  /\ link = None
  /\ watch = IdleWatch

Init == Construction /\ called = "unrecorded"

\* A read of the wall clock (time.time(), datetime.now()): the clock is
\* monotone, and it is only ever observed by these reads, so time passes here.
ReadClock(t) == t \in now..MaxTime /\ now' = t

\* the backends are reachable again, for good
Recover ==
  /\ outage
  /\ outage' = FALSE
  /\ UNCHANGED <<rest, enabled, stores, now, served, handler, worker, written>>

\* ------------------------------------------------ CacheService operations
\* CacheService.get: None when disabled, on a miss and on a Redis error
\* (the except of line 73); else the deserialized value.
cache_get(key, ok) ==
  IF ~enabled \/ ~ok THEN None
  ELSE LET data == RedisGet(redis, key)
       IN IF IsSome(data) THEN Some(_deserialize(The(data))) ELSE None

\* CacheService.set of a dict: False when disabled, when _serialize raises and
\* on a Redis error (the except of line 90); else setex and True.
cache_set(key, value, ok) ==
  IF enabled /\ ok /\ ~SerializeRaises(value)
    THEN [ok |-> TRUE, redis |-> RedisSet(redis, key, _serialize(value))]
    ELSE [ok |-> FALSE, redis |-> redis]

\* ------------------------------------------------- POST /api/progress (app.py)
\* The handler has answered: its locals are gone, the response is on its way.
Finished(r, resp) ==
  [IdleHandler EXCEPT !.pc = "done", !.kind = r.kind, !.file_info = r.file_info,
                      !.resp = Some(resp)]

\* DatabaseAdapter.get_file_by_id: the row from PostgreSQL, None when there is
\* none or PostgreSQL fails (no Firebase fallback).
get_file_by_id(file_id, ok) == IF ok THEN FileRow(file_id) ELSE None

\* Lines 388-402: read the body, look the file up, 404 when there is no row.
PostBegin(h) ==
  /\ handler[h].pc \in {"idle", "done"}
  /\ served < MaxRequests
  /\ served' = served + 1
  /\ \E u \in Users, f \in RequestFiles, b \in Bodies, ok \in BOOLEAN :
       LET file_info == get_file_by_id(f, ok)
           r == [IdleHandler EXCEPT !.kind = "post", !.user_id = u, !.file_id = f,
                                    !.body = b, !.file_info = file_info]
       IN /\ Fault(ok)
          /\ handler' = [handler EXCEPT ![h] =
               IF IsSome(file_info)
                 THEN [r EXCEPT !.pc = "pg_write"]
                 ELSE Finished(r, [status |-> 404,
                                   body |-> [error |-> "File not found"]])]
  /\ UNCHANGED <<rest, enabled, outage, stores, now, worker, written>>

\* Lines 404-437: the primary write, postgres_db.update_file_progress; a failure
\* is logged and the handler goes on; then progress_data is built with
\* last_updated = int(time.time()).
PostPgWrite(h) ==
  /\ handler[h].pc = "pg_write"
  /\ \E ok \in BOOLEAN, t \in 0..MaxTime :
       /\ Fault(ok)
       /\ ReadClock(t)
       /\ pg' = IF ok
                  THEN PgUpsert(pg, handler[h].user_id, handler[h].file_id,
                                The(handler[h].file_info).lesson_id,
                                The(handler[h].file_info).course_id,
                                handler[h].body, t)
                  ELSE pg
       /\ handler' = [handler EXCEPT ![h].last_updated = t,
                        ![h].pc = IF enabled THEN "cache_set" ELSE "fallback"]
  /\ UNCHANGED <<rest, enabled, outage, served, redis, fb, worker, written>>

\* progress_data with the position taken from the wrong local: the time of
\* the write stored as progress_seconds.
progress_dataMixedUp(r) ==
  [user_id |-> r.user_id, file_id |-> r.file_id,
   lesson_id |-> The(r.file_info).lesson_id, course_id |-> The(r.file_info).course_id,
   progress_seconds |-> r.last_updated,
   progress_percentage |-> r.body.progress_percentage,
   completed |-> r.body.completed, last_updated |-> r.last_updated]

\* The dict of lines 428-437.
progress_data(r) ==
  [user_id |-> r.user_id, file_id |-> r.file_id,
   lesson_id |-> The(r.file_info).lesson_id, course_id |-> The(r.file_info).course_id,
   progress_seconds |-> r.body.progress_seconds,
   progress_percentage |-> r.body.progress_percentage,
   completed |-> r.body.completed, last_updated |-> r.last_updated]

\* Where the handler goes after cache.set(cache_key, ...): the result of the
\* call is dropped, the marker is set next.
AfterCacheSet(set_ok) == "dirty_set"

\* Line 441: cache.set(cache_key, progress_data, ttl=86400).
PostCacheSet(h) ==
  /\ handler[h].pc = "cache_set"
  /\ LET r == handler[h]
         p == <<r.user_id, r.file_id>>
     IN \E ok \in BOOLEAN :
          LET res == cache_set(cache_key(r.user_id, r.file_id), progress_data(r), ok)
          IN /\ Fault(ok)
             /\ redis' = res.redis
             /\ handler' = [handler EXCEPT ![h].set_ok = res.ok,
                                           ![h].pc = AfterCacheSet(res.ok)]
             /\ written' = IF res.ok
                             THEN [written EXCEPT ![p] = Some([by |-> h, body |-> r.body])]
                             ELSE written
  /\ UNCHANGED <<rest, enabled, outage, served, pg, fb, now, worker>>

\* The answer of line 458.
Success == [status |-> 200, body |-> [success |-> TRUE]]

\* The POST of handler h has completed: the sample it cached, if it is still
\* the cached one, is the sample of a completed request.
Completed(h, p) ==
  IF IsSome(written[p]) /\ The(written[p]).by = h
    THEN [written EXCEPT ![p] = Some([by |-> "done", body |-> The(written[p]).body])]
    ELSE written

\* The marker Set with a cache.set that lets the Redis error out: the handler
\* ends in Flask's error answer.
PostDirtySetRaising(h) ==
  /\ handler[h].pc = "dirty_set"
  /\ LET r == handler[h]
     IN \E ok \in BOOLEAN :
          /\ Fault(ok)
          /\ redis' = IF ok
                        THEN RedisSet(redis, dirty_key(r.user_id, r.file_id), TRUE)
                        ELSE redis
          /\ handler' = [handler EXCEPT ![h] =
               Finished(r, IF ok THEN Success
                           ELSE [status |-> 500,
                                 body |-> [error |-> "Internal Server Error"]])]
          /\ written' = Completed(h, <<r.user_id, r.file_id>>)
  /\ UNCHANGED <<rest, enabled, outage, served, pg, fb, now, worker>>

\* Lines 444-445 and 458: cache.set(dirty_key, True, ttl=86400), result dropped,
\* then the success answer.
PostDirtySet(h) ==
  /\ handler[h].pc = "dirty_set"
  /\ LET r == handler[h]
     IN \E ok \in BOOLEAN :
          /\ Fault(ok)
          /\ redis' = IF ok
                        THEN RedisSet(redis, dirty_key(r.user_id, r.file_id), TRUE)
                        ELSE redis
          /\ handler' = [handler EXCEPT ![h] = Finished(r, Success)]
          /\ written' = Completed(h, <<r.user_id, r.file_id>>)
  /\ UNCHANGED <<rest, enabled, outage, served, pg, fb, now, worker>>

\* The adapter without its PostgreSQL service (pg_db None, no Firebase
\* fallback): it writes nothing and returns False.
AdapterUpdateNoPostgres(table, r, ok, t) == table

\* DatabaseAdapter.update_user_progress: returns what pg_db.update_file_progress
\* returns (True, or False when PostgreSQL failed: that method catches its own
\* exceptions), so the Firebase branch behind it is never taken.
AdapterUpdate(table, r, ok, t) ==
  IF ok
    THEN PgUpsert(table, r.user_id, r.file_id, The(r.file_info).lesson_id,
                  The(r.file_info).course_id, r.body, t)
    ELSE table

\* Lines 446-458: with the cache disabled, db.update_user_progress, then the
\* success answer.
PostFallback(h) ==
  /\ handler[h].pc = "fallback"
  /\ \E ok \in BOOLEAN, t \in 0..MaxTime :
       /\ Fault(ok)
       /\ ReadClock(t)
       /\ pg' = AdapterUpdate(pg, handler[h], ok, t)
  /\ handler' = [handler EXCEPT ![h] = Finished(handler[h], Success)]
  /\ UNCHANGED <<rest, enabled, outage, served, redis, fb, worker, written>>

\* ------------------------------------- GET /api/progress/file/<file_id> (app.py)
\* DatabaseService.get_file_progress / EnhancedDatabaseService.get_file_progress:
\* the row as a dict, or None (also when PostgreSQL fails: the except of the
\* method, or the handler's except around get_db_service()).
PgRead(user_id, file_id, ok) ==
  IF ok /\ <<user_id, file_id>> \in Pairs THEN pg[<<user_id, file_id>>] ELSE None

\* firebase_service.get_user_progress: the first matching document, or None.
FbGet(user_id, file_id) ==
  LET hits == {i \in 1..Len(fb) : fb[i].user_id = user_id /\ fb[i].file_id = file_id}
  IN IF hits = {} THEN None
     ELSE Some(fb[CHOOSE j \in hits : \A m \in hits : j <= m])

\* jsonify(progress) with status 200.
Answer(body) == [status |-> 200, body |-> jsonify(body)]
\* jsonify(progress) without the "or {}": an absent sample is answered as an
\* error object.
OrEmptyMissing(progress) ==
  IF IsSome(progress) THEN The(progress) ELSE [error |-> "Progress not found"]

\* jsonify(progress or {})
OrEmpty(progress) == IF IsSome(progress) THEN The(progress) ELSE << >>

\* Lines 464-474: with the cache enabled, cache.get(cache_key); a hit is
\* answered at once.
GetBegin(h) ==
  /\ handler[h].pc \in {"idle", "done"}
  /\ served < MaxRequests
  /\ served' = served + 1
  /\ \E u \in Users, f \in RequestFiles, ok \in BOOLEAN :
       LET r == [IdleHandler EXCEPT !.kind = "get", !.user_id = u, !.file_id = f]
           progress == cache_get(cache_key(u, f), ok)
       IN /\ (~enabled => ok)
          /\ Fault(ok)
          /\ handler' = [handler EXCEPT ![h] =
               IF IsSome(progress)
                 THEN Finished(r, Answer(The(progress)))
                 ELSE [r EXCEPT !.pc = "pg_read"]]
  /\ UNCHANGED <<rest, enabled, outage, stores, now, worker, written>>

\* Lines 476-488: postgres_db.get_file_progress; a row is cached (when the
\* cache is enabled) and answered, anything else goes on to the fallback.
GetPgRead(h) ==
  /\ handler[h].pc = "pg_read"
  /\ \E ok \in BOOLEAN :
       LET r == handler[h]
           progress == PgRead(r.user_id, r.file_id, ok)
       IN /\ Fault(ok)
          /\ handler' = [handler EXCEPT ![h] =
               IF IsSome(progress)
                 THEN IF enabled
                        THEN [r EXCEPT !.progress = progress, !.pc = "repopulate"]
                        ELSE Finished(r, Answer(The(progress)))
                 ELSE [r EXCEPT !.pc = "legacy"]]
  /\ UNCHANGED <<rest, enabled, outage, served, stores, now, worker, written>>

\* Lines 485-486 and 495-498: cache.set(cache_key, progress, ttl=86400), then
\* the answer.
GetRepopulate(h) ==
  /\ handler[h].pc = "repopulate"
  /\ LET r == handler[h]
         p == <<r.user_id, r.file_id>>
         value == The(r.progress)
     IN \E ok \in BOOLEAN :
          LET res == cache_set(cache_key(r.user_id, r.file_id), value, ok)
          IN /\ (SerializeRaises(value) => ok)
             /\ Fault(ok)
             /\ redis' = res.redis
             /\ written' = IF res.ok /\ p \in Pairs
                             THEN [written EXCEPT ![p] = None]
                             ELSE written
             /\ handler' = [handler EXCEPT ![h] = Finished(r, Answer(value))]
  /\ UNCHANGED <<rest, enabled, outage, served, pg, fb, now, worker>>

\* DatabaseAdapter.get_user_progress: pg_db.get_file_progress, then Firebase
\* only with use_firebase_fallback, else None.
AdapterGet(user_id, file_id, ok) ==
  LET result == PgRead(user_id, file_id, ok)
  IN IF IsSome(result) THEN result
     ELSE IF use_firebase_fallback THEN FbGet(user_id, file_id)
     ELSE None

\* Lines 490-498: db.get_user_progress; a result is cached when the cache is
\* enabled; the answer is the result, or {} when there is none.
GetLegacy(h) ==
  /\ handler[h].pc = "legacy"
  /\ \E ok \in BOOLEAN :
       LET r == handler[h]
           progress == AdapterGet(r.user_id, r.file_id, ok)
       IN /\ Fault(ok)
          /\ handler' = [handler EXCEPT ![h] =
               IF IsSome(progress) /\ enabled
                 THEN [r EXCEPT !.progress = progress, !.pc = "repopulate"]
                 ELSE Finished(r, Answer(OrEmpty(progress)))]
  /\ UNCHANGED <<rest, enabled, outage, served, stores, now, worker, written>>

\* --------------------------------- ProgressSyncWorker (progress_sync_worker.py)
NewPass == [pc |-> "keys", todo |-> {}, synced |-> 0, failed |-> 0]

\* _sync_dirty_progress returns to its caller: _sync_loop goes on to its sleep
\* (lines 66-70), stop() to its join (lines 53-54).
Return(e) ==
  /\ pass' = [pass EXCEPT ![e] = IdlePass]
  /\ IF e = Ctl
       THEN cpc' = "join" /\ UNCHANGED <<tpc, slice>>
       ELSE /\ tpc' = [tpc EXCEPT ![e] = "sleep"]
            /\ slice' = [slice EXCEPT ![e] = 0]
            /\ cpc' = cpc

\* Lines 74-86: nothing to do with the cache disabled; redis_client.keys; an
\* error there is caught by the outer except; nothing to do without keys.
SyncBegin(e) ==
  /\ pass[e].pc = "keys"
  /\ \E ok \in BOOLEAN :
       LET dirty_keys == {k \in DOMAIN redis : MatchesDirtyPattern(k)}
       IN /\ (~enabled => ok)
          /\ Fault(ok)
          /\ IF ~enabled \/ ~ok \/ dirty_keys = {}
               THEN Return(e)
               ELSE /\ pass' = [pass EXCEPT ![e] =
                          [pc |-> "loop", todo |-> dirty_keys,
                           synced |-> 0, failed |-> 0]]
                    /\ UNCHANGED <<tpc, slice, cpc>>
  /\ UNCHANGED <<rest, enabled, outage, served, stores, now, handler, running, thread, born,
                 written>>

\* Lines 92-125 for a key that decodes: split it, read the sample, drop a
\* marker without sample, else write the sample to Firebase and drop the marker.
\* The outcome is "synced", "failed" (an exception) or "skipped" (continue).
EntryBody(key, okGet, okFlush, okDel) ==
  LET parts == split(key, 3)
      user_id == parts[3]
      file_id == parts[4]
      data == IF okGet THEN RedisGet(redis, cache_key(user_id, file_id)) ELSE None
  IN IF Len(parts) # 4
       THEN [outcome |-> "skipped", redis |-> redis, fb |-> fb]
     ELSE IF ~IsSome(data)
       THEN [outcome |-> "skipped",
             redis |-> IF okDel THEN RedisDel(redis, key) ELSE redis, fb |-> fb]
     ELSE IF ~okFlush
       THEN [outcome |-> "failed", redis |-> redis, fb |-> fb]
     ELSE [outcome |-> "synced",
           redis |-> IF okDel THEN RedisDel(redis, key) ELSE redis,
           fb |-> FbUpdate(fb, _deserialize(The(data)), now)]

\* The for loop left at the first entry that fails.
RemainingUntilFailure(todo, key, outcome) ==
  IF outcome = "failed" THEN {} ELSE todo \ {key}
\* The keys the for loop of line 88 still has to visit after this one: the
\* except of line 127 is inside the loop, so the outcome does not matter.
Remaining(todo, key, outcome) == todo \ {key}

\* Lines 88-129, one iteration of the for loop. dirty_key.decode raises for the
\* str keys the client returns; the except of line 127 counts the entry as
\* failed and the loop goes on.
SyncEntry(e) ==
  /\ pass[e].pc = "loop"
  /\ \E key \in pass[e].todo :
       \E okGet \in BOOLEAN, okFlush \in BOOLEAN, okDel \in BOOLEAN :
         LET done == IF DecodeRaises
                       THEN [outcome |-> "failed", redis |-> redis, fb |-> fb]
                       ELSE EntryBody(key, okGet, okFlush, okDel)
             bad == Cardinality({i \in 1..3 : ~<<okGet, okFlush, okDel>>[i]})
         IN /\ (DecodeRaises => bad = 0)
            /\ (bad > 0 => outage)
            /\ redis' = done.redis
            /\ fb' = done.fb
            /\ pass' = [pass EXCEPT ![e].todo = Remaining(@, key, done.outcome),
                 ![e].synced = IF done.outcome = "synced" THEN @ + 1 ELSE @,
                 ![e].failed = IF done.outcome = "failed" THEN @ + 1 ELSE @]
  /\ UNCHANGED <<rest, enabled, outage, served, pg, now, handler, running, thread, born, tpc, slice,
                 cpc, written>>

\* Lines 131-132: the loop is over, the counts are logged, the pass returns.
SyncEnd(e) ==
  /\ pass[e].pc = "loop"
  /\ pass[e].todo = {}
  /\ Return(e)
  /\ UNCHANGED <<rest, enabled, stores, now, outage, served, handler, running, thread, born,
                 written>>

\* Lines 60-62: the while test of _sync_loop; the thread ends when running is
\* False, else it enters _sync_dirty_progress.
LoopCheck(t) ==
  /\ tpc[t] = "check"
  /\ IF running
       THEN /\ tpc' = [tpc EXCEPT ![t] = "pass"]
            /\ pass' = [pass EXCEPT ![t] = NewPass]
       ELSE /\ tpc' = [tpc EXCEPT ![t] = "dead"]
            /\ pass' = pass
  /\ UNCHANGED <<rest, enabled, stores, now, outage, served, handler, running, thread, born,
                 slice, cpc, written>>

\* Lines 67-70: one slice of the sleep: leave the for loop when running is
\* False or the slices are used up, else sleep(1).
LoopSleep(t) ==
  /\ tpc[t] = "sleep"
  /\ IF slice[t] < sync_interval /\ running
       THEN /\ slice' = [slice EXCEPT ![t] = @ + 1]
            /\ tpc' = tpc
       ELSE /\ slice' = [slice EXCEPT ![t] = 0]
            /\ tpc' = [tpc EXCEPT ![t] = "check"]
  /\ UNCHANGED <<rest, enabled, stores, now, outage, served, handler, running, thread, born,
                 cpc, pass, written>>

\* The history of the calls after a call of start() or stop().
Call(name) == IF called = "unrecorded" THEN called ELSE name

\* start(), lines 27-40: nothing when already running or when the cache is
\* disabled; else set running and start a new daemon thread on _sync_loop.
Start ==
  /\ cpc = "idle"
  /\ IF running \/ ~enabled
       THEN UNCHANGED <<running, thread, born, tpc>>
       ELSE /\ born < MaxThreads + (IF called = "unrecorded" THEN 0 ELSE MaxRestarts)
            /\ running' = TRUE
            /\ born' = born + 1
            /\ thread' = born + 1
            /\ tpc' = [tpc EXCEPT ![born + 1] = "check"]
  /\ called' = Call("start")
  /\ UNCHANGED <<watch, flushed, stream, link, enabled, stores, now, outage, served, handler,
                 slice, cpc, pass, written>>

\* stop(), lines 42-51: nothing when not running; else clear running and enter
\* the final _sync_dirty_progress on the caller's thread.
\* stop() leaving running set.
StopBeginStillRunning ==
  /\ cpc = "idle"
  /\ IF ~running
       THEN UNCHANGED <<running, cpc, pass>>
       ELSE /\ running' = running
            /\ cpc' = "final_sync"
            /\ pass' = [pass EXCEPT ![Ctl] = NewPass]
  /\ called' = Call("stop")
  /\ UNCHANGED <<watch, flushed, stream, link, enabled, stores, now, outage, served, handler,
                 thread, born, tpc, slice, written>>

StopBegin ==
  /\ cpc = "idle"
  /\ IF ~running
       THEN UNCHANGED <<running, cpc, pass>>
       ELSE /\ running' = FALSE
            /\ cpc' = "final_sync"
            /\ pass' = [pass EXCEPT ![Ctl] = NewPass]
  /\ called' = Call("stop")
  /\ UNCHANGED <<watch, flushed, stream, link, enabled, stores, now, outage, served, handler,
                 thread, born, tpc, slice, written>>

\* stop(), lines 53-56: thread.join(timeout=5) returns when the thread has
\* ended, or after 5 s while the thread is still inside a pass (a sleeping
\* thread sees running False within one 1 s slice and ends).
StopJoin ==
  /\ cpc = "join"
  /\ thread # 0 => tpc[thread] \in {"dead", "pass"}
  /\ cpc' = "idle"
  /\ UNCHANGED <<rest, enabled, stores, now, outage, served, handler, running, thread, born,
                 tpc, slice, pass, written>>

\* ------------------------------------------------------------ specification
\* The steps of the program itself: the handlers and the worker.
Steps ==
  \/ \E h \in Handlers : PostBegin(h)
  \/ \E h \in Handlers : PostPgWrite(h)
  \/ \E h \in Handlers : PostCacheSet(h)
  \/ \E h \in Handlers : PostDirtySet(h)
  \/ \E h \in Handlers : PostFallback(h)
  \/ \E h \in Handlers : GetBegin(h)
  \/ \E h \in Handlers : GetPgRead(h)
  \/ \E h \in Handlers : GetRepopulate(h)
  \/ \E h \in Handlers : GetLegacy(h)
  \/ \E e \in Executors : SyncBegin(e)
  \/ \E e \in Executors : SyncEntry(e)
  \/ \E e \in Executors : SyncEnd(e)
  \/ \E t \in Threads : LoopCheck(t)
  \/ \E t \in Threads : LoopSleep(t)
  \/ Start
  \/ StopBegin
  \/ StopJoin

Next == Recover \/ Steps

Spec == Init /\ [][Next]_vars

\* The program with every backend reachable throughout: no call fails.
CalmInit == Init /\ ~outage
CalmSpec == CalmInit /\ [][Steps]_vars

\* The same, recording the calls of start() and stop().
WorkerInit == Construction /\ ~outage /\ called = "none"
WorkerSpec == WorkerInit /\ [][Steps]_vars

\* The handlers, the loop thread and a pass that has begun keep being
\* scheduled (threads of one live process), and the backends are eventually
\* reachable again. start() and stop() are calls of the environment: no
\* fairness.
LiveSpec ==
  /\ Spec
  /\ WF_vars(Recover)
  /\ \A h \in Handlers :
       /\ WF_vars(PostPgWrite(h)) /\ WF_vars(PostCacheSet(h))
       /\ WF_vars(PostDirtySet(h)) /\ WF_vars(PostFallback(h))
       /\ WF_vars(GetPgRead(h)) /\ WF_vars(GetRepopulate(h)) /\ WF_vars(GetLegacy(h))
  /\ \A t \in Threads : WF_vars(LoopCheck(t)) /\ WF_vars(LoopSleep(t))
  /\ \A e \in Executors :
       WF_vars(SyncBegin(e)) /\ WF_vars(SyncEntry(e)) /\ WF_vars(SyncEnd(e))

\* ------------------------------------------------- the flush of a sample, alone
\* The samples a pass can find cached: the dicts the POST handler builds.
Samples ==
  { progress_data([user_id |-> p[1], file_id |-> p[2], file_info |-> FileRow(p[2]),
                   body |-> b, last_updated |-> 0]) : p \in Pairs, b \in Bodies }

\* The flush just done, as history: it repeats the one before when the store
\* was last written with the same sample.
Flushed(store, s) ==
  [flushed EXCEPT ![store] = Some([sample |-> s, again |-> flushed[store] # None
                                     /\ The(flushed[store]).sample = s])]

\* firebase_service.update_user_progress(user_id, file_id, ...) with the fields
\* of sample s, as the pass calls it for an entry.
FlushFirebase(s) ==
  /\ \E t \in 0..MaxTime : ReadClock(t) /\ fb' = FbUpdate(fb, s, t)
  /\ flushed' = Flushed("firebase", s)
  /\ UNCHANGED <<watch, stream, link, called, enabled, redis, pg, outage, served, handler, worker, written>>

\* update_file_progress(user_id, file_id, lesson_id, course_id, ...) with the
\* fields of sample s.
FlushPostgres(s) ==
  /\ \E t \in 0..MaxTime :
       /\ ReadClock(t)
       /\ pg' = PgUpsert(pg, s.user_id, s.file_id, s.lesson_id, s.course_id, s, t)
  /\ flushed' = Flushed("postgres", s)
  /\ UNCHANGED <<watch, stream, link, called, enabled, redis, fb, outage, served, handler, worker, written>>

FlushInit == Init /\ enabled /\ ~outage
FlushNext == \E s \in Samples : FlushFirebase(s) \/ FlushPostgres(s)
FlushSpec == FlushInit /\ [][FlushNext]_vars

\* ------------------------------------------------------ text and numbers
\* Text is a sequence of characters; "bytes=" and "Bearer " are written as one
\* token each.
Digit == <<"0", "1", "2", "3", "4", "5", "6", "7", "8", "9">>
\* str(n) of an int, as the f-strings and str() produce it.
RECURSIVE Str(_)
Str(n) ==
  IF n < 0 THEN <<"-">> \o Str(0 - n)
  ELSE IF n < 10 THEN <<Digit[n + 1]>>
  ELSE Str(n \div 10) \o <<Digit[(n % 10) + 1]>>
IsDigits(s) == Len(s) > 0 /\ \A i \in 1..Len(s) : \E d \in 1..10 : s[i] = Digit[d]
\* int(text) raises ValueError unless the text is a decimal literal.
IntRaises(s) ==
  ~ (IsDigits(s) \/ (Len(s) > 1 /\ s[1] \in {"-", "+"} /\ IsDigits(Tail(s))))
RECURSIVE DigitsValue(_)
DigitsValue(s) ==
  IF s = << >> THEN 0
  ELSE 10 * DigitsValue(SubSeq(s, 1, Len(s) - 1))
         + ((CHOOSE d \in 1..10 : s[Len(s)] = Digit[d]) - 1)
int(s) ==
  IF s[1] = "-" THEN 0 - DigitsValue(Tail(s))
  ELSE IF s[1] = "+" THEN DigitsValue(Tail(s))
  ELSE DigitsValue(s)
\* str.replace(old, '') for a one-token old; str.split(sep) without maxsplit.
Remove(s, old) == SelectSeq(s, LAMBDA c : c # old)
RECURSIVE SplitOn(_, _)
SplitOn(s, sep) ==
  IF ~ \E i \in 1..Len(s) : s[i] = sep
    THEN <<s>>
    ELSE LET i == CHOOSE j \in 1..Len(s) :
                    s[j] = sep /\ \A m \in 1..(j - 1) : s[m] # sep
         IN <<SubSeq(s, 1, i - 1)>> \o SplitOn(SubSeq(s, i + 1, Len(s)), sep)

\* ------------------------------------------------------------ url_signer.py
URL_SIGNING_SECRET == <<"s3cr3t">>
\* hmac.new(key, message, hashlib.sha256).hexdigest(): ASCII text determined
\* by key and message, different for different keys or messages.
hexdigest(key, message) == <<"hmac">> \o key \o <<"|">> \o message
\* A str that str-typed hmac.compare_digest accepts: ASCII only. The token
\* "e-acute" stands for the one non-ASCII character of the model.
IsAscii(text) == \A i \in 1..Len(text) : text[i] # "e-acute"

\* generate_signed_url(file_id) called at clock t: (signature, expiration).
generate_signed_url(file_id, t) ==
  LET expiration == t + URL_EXPIRATION_SECONDS
      message == file_id \o <<":">> \o Str(expiration)
  IN [signature |-> hexdigest(URL_SIGNING_SECRET, message),
      expiration |-> expiration]

\* verify_signed_url refusing the parameters from the second they expire on.
verify_signed_urlEarly(file_id, signature, expiration, t) ==
  LET message == file_id \o <<":">> \o Str(expiration)
      expected_signature == hexdigest(URL_SIGNING_SECRET, message)
  IN IF t >= expiration THEN [raised |-> FALSE, value |-> FALSE]
     ELSE IF ~IsAscii(signature) THEN [raised |-> TRUE, value |-> FALSE]
     ELSE [raised |-> FALSE, value |-> signature = expected_signature]

\* verify_signed_url(file_id, signature, expiration) called at clock t: the
\* bool it returns, or the TypeError of compare_digest on a non-ASCII str.
verify_signed_url(file_id, signature, expiration, t) ==
  LET message == file_id \o <<":">> \o Str(expiration)
      expected_signature == hexdigest(URL_SIGNING_SECRET, message)
  IN IF t > expiration THEN [raised |-> FALSE, value |-> FALSE]
     ELSE IF ~IsAscii(signature) THEN [raised |-> TRUE, value |-> FALSE]
     ELSE [raised |-> FALSE, value |-> signature = expected_signature]

\* parse_signed_params(request.args): None, or (signature, expiration). A
\* parameter that is absent and one that is empty are both falsy: << >>.
parse_signed_params(args) ==
  IF args.signature = << >> \/ args.expires = << >> THEN None
  ELSE IF IntRaises(args.expires) THEN None
  ELSE Some([signature |-> args.signature, expiration |-> int(args.expires)])

\* ---------------------------------------------------------- auth_service.py
\* verify_firebase_token: the decoded token of a valid ID token, else None.
verify_firebase_token(id_token) ==
  IF id_token = <<"token-u1">> THEN Some([uid |-> <<"u1">>]) ELSE None
\* request.current_user as optional_auth and require_auth set it.
current_user(auth_header) ==
  IF auth_header # << >> /\ auth_header[1] = "Bearer "
    THEN verify_firebase_token(SplitOn(auth_header, "Bearer ")[2])
    ELSE None

\* ---------------------------------------------------------------- the media
\* A path: absolute or not, and its components.
Path(abs, parts) == [abs |-> abs, parts |-> parts]
\* Config.MEDIA_PATH
MEDIA_PATH == Path(TRUE, <<"media">>)
\* os.path.join(a, b): b alone when b is absolute.
join(a, b) == IF b.abs THEN b ELSE Path(a.abs, a.parts \o b.parts)
\* The file a path names once the system has resolved its ".." components.
RECURSIVE Resolve(_, _)
Resolve(done, todo) ==
  IF todo = << >> THEN done
  ELSE IF todo[1] = ".."
    THEN Resolve(SubSeq(done, 1, Len(done) - 1), Tail(todo))
    ELSE Resolve(Append(done, todo[1]), Tail(todo))
\* The files on the disk: resolved absolute path |-> bytes.
Disk ==
  (<<"media", "c1", "a.mp4">> :> <<10, 20, 30, 40>>)
    @@ (<<"media", "c1", "notes.pdf">> :> <<50, 60>>)
    @@ (<<"etc", "shadow">> :> <<70, 80>>)
    @@ (<<"private", "b.mp4">> :> <<90>>)
exists(path) == Resolve(<< >>, path.parts) \in DOMAIN Disk
Content(path) == Disk[Resolve(<< >>, path.parts)]

\* The files table as the media handlers read it: id |-> is_video,
\* is_document, file_path.
MediaRows ==
  (<<"v1">> :> [is_video |-> TRUE, is_document |-> FALSE,
                file_path |-> Path(FALSE, <<"c1", "a.mp4">>)])
    @@ (<<"v2">> :> [is_video |-> TRUE, is_document |-> FALSE,
                     file_path |-> Path(TRUE, <<"etc", "shadow">>)])
    @@ (<<"v3">> :> [is_video |-> TRUE, is_document |-> FALSE,
                     file_path |-> Path(FALSE, <<"..", "private", "b.mp4">>)])
    @@ (<<"v4">> :> [is_video |-> TRUE, is_document |-> FALSE,
                     file_path |-> Path(FALSE, <<"c1", "gone.mp4">>)])
    @@ (<<"d1">> :> [is_video |-> FALSE, is_document |-> TRUE,
                     file_path |-> Path(FALSE, <<"c1", "notes.pdf">>)])
MediaIds == DOMAIN MediaRows \cup {<<"x9">>}
\* db.get_file_by_id(file_id) of the media handlers.
MediaRow(file_id) ==
  IF file_id \in DOMAIN MediaRows THEN Some(MediaRows[file_id]) ELSE None

\* ------------------------------------------------------- the media handlers
\* A response: status, the error of a JSON error body, headers, the bytes of
\* the body, and the file opened to produce them (<< >>: none).
Reply(status, error) ==
  [status |-> status, error |-> error, headers |-> << >>, body |-> << >>,
   opened |-> << >>]

Min(a, b) == IF a <= b THEN a ELSE b
\* generate() of stream_file: seek(byte_start), then read and yield chunks of
\* at most CHUNK_SIZE bytes while remaining > 0, stopping at the end of file.
RECURSIVE generate(_, _, _)
generate(content, pos, remaining) ==
  IF remaining <= 0 THEN << >>
  ELSE LET chunk_size == Min(CHUNK_SIZE, remaining)
           data == IF pos >= Len(content) THEN << >>
                   ELSE SubSeq(content, pos + 1, Min(pos + chunk_size, Len(content)))
       IN IF data = << >> THEN << >>
          ELSE data \o generate(content, pos + Len(data), remaining - Len(data))

\* Lines 323-327: the Range header, split; the ValueError of int(); byte_start
\* and byte_end. An absent header and an empty one are both falsy: << >>.
range_match(range_header) == SplitOn(Remove(range_header, "bytes="), "-")
RangeRaises(range_header) ==
  LET m == range_match(range_header)
  IN /\ range_header # << >>
     /\ \/ m[1] # << >> /\ IntRaises(m[1])
        \/ Len(m) > 1 /\ m[2] # << >> /\ IntRaises(m[2])
byte_start(range_header) ==
  LET m == range_match(range_header)
  IN IF range_header # << >> /\ m[1] # << >> THEN int(m[1]) ELSE 0
\* byte_end with the end of the Range header ignored.
byte_endOfFile(range_header, file_size) == file_size - 1
byte_end(range_header, file_size) ==
  LET m == range_match(range_header)
  IN IF range_header # << >> /\ Len(m) > 1 /\ m[2] # << >>
       THEN int(m[2]) ELSE file_size - 1

\* The headers stream_file adds to its response (lines 344-347).
StreamHeaders(start, end, file_size, length) ==
  ("Content-Range" :>
     (<<"bytes", " ">> \o Str(start) \o <<"-">> \o Str(end) \o <<"/">> \o Str(file_size)))
    @@ ("Accept-Ranges" :> <<"bytes">>)
    @@ ("Content-Length" :> Str(length))
    @@ ("Cache-Control" :> <<"public, max-age=3600">>)

\* Lines 313-349: the response for the file at video_path.
RangeReply(video_path, range_header) ==
  LET content == Content(video_path)
      file_size == Len(content)
      start == byte_start(range_header)
      end == byte_end(range_header, file_size)
      length == end - start + 1
  IN IF RangeRaises(range_header) THEN Reply(500, "ValueError")
     ELSE [status |-> IF range_header # << >> THEN 206 ELSE 200,
           error |-> "",
           headers |-> StreamHeaders(start, end, file_size, length),
           body |-> generate(content, start, length),
           opened |-> Resolve(<< >>, video_path.parts)]

\* Lines 303-311: the row, the path, the file on disk.
FileReply(file_id, range_header) ==
  LET file == MediaRow(file_id)
  IN IF file = None \/ ~The(file).is_video THEN Reply(404, "Video file not found")
     ELSE LET video_path == join(MEDIA_PATH, The(file).file_path)
          IN IF ~exists(video_path) THEN Reply(404, "Video file not found on disk")
             ELSE RangeReply(video_path, range_header)

\* stream_file at clock t (lines 283-349): signed parameters first, the
\* bearer principal only when there are none.
StreamReply(req, t) ==
  LET signed_params == parse_signed_params(req.args)
  IN IF IsSome(signed_params)
       THEN LET v == verify_signed_url(req.file_id, The(signed_params).signature,
                                       The(signed_params).expiration, t)
            IN IF v.raised THEN Reply(500, "TypeError")
               ELSE IF ~v.value THEN Reply(401, "Invalid or expired signature")
               ELSE FileReply(req.file_id, req.range)
       ELSE IF IsSome(current_user(req.authorization))
         THEN FileReply(req.file_id, req.range)
         ELSE Reply(401, "Authentication required")

\* DatabaseAdapter.get_file_by_id(self, file_id): called with any other number
\* of arguments it raises TypeError.
GetFileByIdRaises(nargs) == nargs # 1
\* get_document (lines 351-367): db.get_file_by_id(file_id, user_id).
DocumentReply(req) ==
  IF ~IsSome(current_user(req.authorization)) THEN Reply(401, "No authorization token provided")
  ELSE IF GetFileByIdRaises(2) THEN Reply(500, "TypeError")
  ELSE LET file == MediaRow(req.file_id)
       IN IF file = None \/ ~The(file).is_document THEN Reply(404, "Document not found")
          ELSE LET file_path == join(MEDIA_PATH, The(file).file_path)
               IN IF ~exists(file_path) THEN Reply(404, "Document file not found on disk")
                  ELSE [status |-> 200, error |-> "", headers |-> << >>,
                        body |-> Content(file_path),
                        opened |-> Resolve(<< >>, file_path.parts)]

\* ------------------------------------------------------- the media requests
AuthHeaders == { << >>, <<"Bearer ", "token-u1">>, <<"Bearer ", "stale">> }
\* Clock values at which a signed URL is issued, and the expirations they give.
IssueTimes == {0, 1}
\* signature parameters: none, the ones issued for v1 and v2, a forged one, one
\* that is not ASCII.
Signatures ==
  { << >>, <<"f", "0", "0", "d">>, <<"e-acute">> }
    \cup { generate_signed_url(f, t).signature : f \in {<<"v1">>, <<"v2">>}, t \in IssueTimes }
\* expires parameters: none, not a number, the expirations issued.
Expirations ==
  { << >>, <<"s", "o", "o", "n">> }
    \cup { Str(generate_signed_url(<<"v1">>, t).expiration) : t \in IssueTimes }
\* Range headers on the video v1: none, every bytes=start-end around the file
\* size, open-ended and suffix forms, and malformed ones.
Around == 0..(Len(Disk[<<"media", "c1", "a.mp4">>]) + 1)
Ranges ==
  { << >>, <<"bytes=">>, <<"bytes=", "a", "-", "b">>, <<"bytes=", "x">>,
    <<"bytes=", "1", "-", "z">> }
    \cup { <<"bytes=">> \o Str(a) \o <<"-">> \o Str(b) : a \in Around, b \in Around }
    \cup { <<"bytes=">> \o Str(a) \o <<"-">> : a \in Around }
    \cup { <<"bytes=", "-">> \o Str(b) : b \in Around }

Request(file_id, authorization, signature, expires, range) ==
  [file_id |-> file_id, authorization |-> authorization,
   args |-> [signature |-> signature, expires |-> expires], range |-> range]
\* GET /api/stream/<file_id>: every way of presenting credentials for v1 and
\* v2, every Range on v1, and every file of the catalog.
StreamRequests ==
  { Request(f, a, g, e, << >>) :
      f \in {<<"v1">>, <<"v2">>}, a \in AuthHeaders, g \in Signatures, e \in Expirations }
    \cup { Request(<<"v1">>, a, << >>, << >>, r) :
              a \in {<<"Bearer ", "token-u1">>}, r \in Ranges }
    \cup { Request(f, a, << >>, << >>, r) :
              f \in MediaIds, a \in {<<"Bearer ", "token-u1">>},
              r \in {<< >>, <<"bytes=", "0", "-", "0">>} }
\* GET /api/document/<file_id> and GET /api/stream/signed-url/<file_id>.
PlainRequests ==
  { Request(f, a, << >>, << >>, << >>) :
      f \in {<<"v1">>, <<"v2">>, <<"d1">>, <<"x9">>}, a \in AuthHeaders }

\* The clock advances; the exchange last handled is over.
Tick ==
  /\ now < MaxClock
  /\ now' = now + 1
  /\ stream' = [kind |-> "idle"]
  /\ UNCHANGED <<watch, link, flushed, called, enabled, outage, served, handler, stores, worker, written>>

\* get_signed_stream_url (lines 255-278), behind require_auth.
GetSignedUrl ==
  \E req \in PlainRequests :
    LET file == MediaRow(req.file_id)
        issued == generate_signed_url(req.file_id, now)
        reply ==
          IF ~IsSome(current_user(req.authorization))
            THEN Reply(401, "No authorization token provided")
          ELSE IF file = None \/ ~The(file).is_video
            THEN Reply(404, "Video file not found")
          ELSE [Reply(200, "") EXCEPT
                  !.body = [file_id |-> req.file_id, signature |-> issued.signature,
                            expires |-> issued.expiration]]
    IN /\ stream' = [kind |-> "signed-url", req |-> req, at |-> now,
                      verified |-> None, resp |-> reply]
       /\ link' = IF reply.status = 200 THEN Some(reply.body) ELSE link
       /\ UNCHANGED <<watch, now, flushed, called, enabled, outage, served, handler, stores, worker,
                      written>>

\* stream_file, behind optional_auth.
StreamFile ==
  \E req \in StreamRequests :
    LET signed_params == parse_signed_params(req.args)
    IN /\ stream' =
            [kind |-> "stream", req |-> req, at |-> now,
             verified |->
               IF IsSome(signed_params)
                 THEN Some(verify_signed_url(req.file_id, The(signed_params).signature,
                                             The(signed_params).expiration, now))
                 ELSE None,
             resp |-> StreamReply(req, now)]
       /\ UNCHANGED <<watch, now, link, flushed, called, enabled, outage, served, handler, stores,
                      worker, written>>

\* get_document, behind require_auth.
GetDocument ==
  \E req \in PlainRequests :
    /\ stream' = [kind |-> "document", req |-> req, at |-> now, verified |-> None,
                  resp |-> DocumentReply(req)]
    /\ UNCHANGED <<watch, now, link, flushed, called, enabled, outage, served, handler, stores,
                   worker, written>>

MediaInit == Init /\ enabled /\ ~outage
MediaNext == Tick \/ GetSignedUrl \/ StreamFile \/ GetDocument
MediaSpec == MediaInit /\ [][MediaNext]_vars

\* ------------------------------------------------------------ folder watcher
\* Paths are token sequences: a leading "." (a relative watch path), "~" and
\* the suffix are tokens of their own.
FsPaths ==
  { <<"/media/c1">>, <<"/media/c1/a", ".MP4">>, <<"/media/c1/notes", ".pdf">>,
    <<"/media/c1/a", ".part">>, <<"/media/c1/a", "~", ".mp4">>,
    <<".", "/media/c1/b", ".mp4">> }
\* The events watchdog delivers: a kind, the path, and whether it is a directory.
FsEvents ==
  { [kind |-> k, src_path |-> path, is_directory |-> (Len(path) = 1)] :
      k \in {"created", "deleted", "moved", "modified"}, path \in FsPaths }

\* str.lower() on the suffixes of the paths above.
lower(x) == IF x = ".MP4" THEN ".mp4" ELSE x
\* Path(src_path).suffix: the last dot-led token of the name, if any.
suffix(path) ==
  LET last == path[Len(path)]
  IN IF Len(path) > 1 /\ last \in {".MP4", ".mp4", ".pdf", ".part"} THEN last ELSE ""
video_extensions == {".mp4", ".avi", ".mkv", ".mov", ".wmv", ".flv", ".webm", ".m4v"}
document_extensions == {".pdf", ".doc", ".docx", ".txt", ".ppt", ".pptx", ".xls", ".xlsx"}

\* should_trigger_scan (lines 28-49).
should_trigger_scan(event) ==
  IF event.src_path[1] = "." \/ "~" \in {event.src_path[i] : i \in 1..Len(event.src_path)}
    THEN FALSE
  ELSE IF event.is_directory THEN TRUE
  ELSE LET ext == lower(suffix(event.src_path))
       IN ext \in video_extensions \/ ext \in document_extensions

\* trigger_scan_debounced (lines 51-67) on the handler fields w at the clock
\* reading current_time; scan_callback runs in the caller, so the scan starts
\* here.
trigger_scan_debounced(w, current_time) ==
  IF current_time - w.last_scan_time < debounce_seconds
    THEN [w EXCEPT !.pending_scan = TRUE]
    ELSE [w EXCEPT !.pending_scan = FALSE, !.last_scan_time = current_time,
                   !.scans = @ \cup {current_time}]

\* on_created, on_deleted, on_moved (lines 69-85); the other kinds go to the
\* handlers of FileSystemEventHandler, which do nothing.
on_event(w, event) ==
  IF event.kind \in {"created", "deleted", "moved"} /\ should_trigger_scan(event)
    THEN trigger_scan_debounced(w, w.time)
    ELSE w

\* The watcher's clock advances.
WatchTick ==
  /\ watch.time < debounce_seconds + MaxElapsed
  /\ watch' = [watch EXCEPT !.time = @ + 1]
  /\ UNCHANGED <<flushed, stream, link, called, enabled, stores, now, outage, served,
                 handler, worker, written>>

\* Something changes under the watched folder: the observer's emitter thread
\* queues the event.
Arrive ==
  /\ watch.arrived < MaxEvents
  /\ \E event \in FsEvents :
       watch' = [watch EXCEPT
         !.arrived = @ + 1,
         !.queue = Append(@, event),
         !.events = IF event.kind \in {"created", "deleted", "moved"}
                       /\ should_trigger_scan(event)
                      THEN @ \cup {watch.time} ELSE @]
  /\ UNCHANGED <<flushed, stream, link, called, enabled, stores, now, outage, served,
                 handler, worker, written>>

\* The observer thread takes the next event off its queue and calls the
\* handler of its kind, one event at a time.
Dispatch ==
  /\ watch.queue # << >>
  /\ watch' = on_event([watch EXCEPT !.queue = Tail(@)], Head(watch.queue))
  /\ UNCHANGED <<flushed, stream, link, called, enabled, stores, now, outage, served,
                 handler, worker, written>>

WatchInit == Init /\ enabled /\ ~outage
WatchNext == WatchTick \/ Arrive \/ Dispatch
WatchSpec == WatchInit /\ [][WatchNext]_vars
\* The observer thread keeps dispatching and time keeps passing; filesystem
\* events come from the environment: no fairness.
WatchLiveSpec == WatchSpec /\ WF_vars(Dispatch) /\ WF_vars(WatchTick)

\* ---------------------------------------------------- vocabulary of the claims
\* The readings the watcher's clock can give.
WatchTimes == debounce_seconds..(debounce_seconds + MaxElapsed)
\* The dirty marker of pair p is set; the sample of pair p is cached.
Marked(p) == dirty_key(p[1], p[2]) \in DOMAIN redis
Cached(p) == cache_key(p[1], p[2]) \in DOMAIN redis
\* The client-written values of a body, sample, row, document or answer.
Values(x) == <<x.progress_seconds, x.progress_percentage, x.completed>>
\* The collection holds a document of pair p; one with the values v.
FbHas(coll, p) ==
  \E i \in 1..Len(coll) : coll[i].user_id = p[1] /\ coll[i].file_id = p[2]
FbHolds(coll, p, v) ==
  \E i \in 1..Len(coll) :
    coll[i].user_id = p[1] /\ coll[i].file_id = p[2] /\ Values(coll[i]) = v
\* This step is executor e's pass taking up the entry of pair p.
TakesUp(e, p) ==
  /\ pass[e].pc = "loop"
  /\ dirty_key(p[1], p[2]) \in pass[e].todo
  /\ dirty_key(p[1], p[2]) \notin pass'[e].todo
\* This step is handler h beginning a request (the others are left alone).
Begins(h) ==
  /\ handler[h].pc \in {"idle", "done"}
  /\ served' = served + 1
  /\ \A g \in Handlers \ {h} : handler'[g] = handler[g]
  /\ \/ handler'[h] # handler[h]
     \/ \A g \in Handlers \ {h} : handler[g].pc \notin {"idle", "done"}
\* Handler h holds the answer of a finished request of this kind.
Answered(h, kind) == handler[h].pc = "done" /\ handler[h].kind = kind

\* ------------------------------------------------------------------- claims
\* C1 (dirty-marker draining): in a sync pass with no backend failure, every
\* dirty entry the pass takes up whose sample is cached ends with the sample's
\* values in the store the worker flushes to (Firebase) and with its marker
\* gone; so one full pass after N completed writes leaves all N samples stored
\* and no marker.
C1_PassDrains ==
  [][\A e \in Executors, p \in Pairs :
       (TakesUp(e, p) /\ ~outage /\ Cached(p))
         => /\ FbHolds(fb', p, Values(redis[cache_key(p[1], p[2])]))
            /\ dirty_key(p[1], p[2]) \notin DOMAIN redis']_vars

\* C2 (marker cleared only after a confirmed flush): whenever the cache holds
\* the sample of a completed POST for a pair and the pair has no dirty marker,
\* the store the worker flushes to (Firebase) holds that sample's values.
C2_UnmarkedIsFlushed ==
  \A p \in Pairs :
    (/\ IsSome(written[p]) /\ The(written[p]).by = "done"
     /\ Cached(p) /\ ~Marked(p))
      => FbHolds(fb, p, Values(The(written[p]).body))

\* C4 (eventual durability): with the cache enabled and the worker running, a
\* cached sample that is marked dirty leads to the pair's sample being in the
\* store the worker flushes to with the marker cleared (unless the worker is
\* stopped first), the loop being scheduled and the backends reachable again.
C4_EventuallyDurable ==
  \A p \in Pairs :
    (enabled /\ running /\ Marked(p) /\ Cached(p))
      ~> (~running \/ (FbHas(fb, p) /\ ~Marked(p)))

\* C5 (stop() flushes before it returns): the pass stop() runs before its join,
\* with no backend failure, lists every marker there is, and every entry it
\* takes up whose sample is cached ends with the sample's values in the store
\* the worker flushes to and with its marker gone; stop() goes on to its join
\* only when the pass has returned.
C5_StopFlushes ==
  [][/\ (cpc = "final_sync" /\ pass[Ctl].pc = "keys" /\ pass'[Ctl].pc = "loop")
          => pass'[Ctl].todo = {k \in DOMAIN redis : MatchesDirtyPattern(k)}
     /\ \A p \in Pairs :
          (cpc = "final_sync" /\ TakesUp(Ctl, p) /\ ~outage /\ Cached(p))
            => /\ FbHolds(fb', p, Values(redis[cache_key(p[1], p[2])]))
               /\ ~Marked(p)'
     /\ (cpc = "final_sync" /\ cpc' = "join") => pass'[Ctl].pc = "off"]_vars

\* C11 (last write wins, the tiers agree): with no backend failure, once no
\* request is in flight, the cached sample of a pair and the pair's durable row
\* hold the same values (those of the POST with the greater last_updated); two
\* concurrent POSTs for the pair do not leave the tiers with different samples.
C11_TiersAgree ==
  \A p \in Pairs :
    (/\ \A h \in Handlers : handler[h].pc \in {"idle", "done"}
     /\ Cached(p) /\ IsSome(pg[p]))
      => LET sample == redis[cache_key(p[1], p[2])]
         IN Values(The(pg[p])) =
              <<sample.progress_seconds,
                Decimal(sample.progress_percentage.number), sample.completed>>

\* The documents of pair p in the collection.
FbDocs(coll, p) ==
  {i \in 1..Len(coll) : coll[i].user_id = p[1] /\ coll[i].file_id = p[2]}

\* C12 (flush idempotence): a flush of sample s to a durable store that was last
\* written with that same sample leaves exactly one row of the pair, holding
\* the values of s; it changes no progress field of the row and adds no row.
C12_FlushIdempotent ==
  [][\A s \in Samples :
       LET p == <<s.user_id, s.file_id>>
       IN /\ (FlushFirebase(s) /\ flushed["firebase"] # None
                /\ The(flushed["firebase"]).sample = s)
               => /\ Cardinality(FbDocs(fb', p)) = 1
                  /\ \A i \in FbDocs(fb', p) :
                       /\ Values(fb'[i]) = Values(s)
                       /\ i \in FbDocs(fb, p) /\ Values(fb'[i]) = Values(fb[i])
                  /\ Len(fb') = Len(fb)
          /\ (FlushPostgres(s) /\ flushed["postgres"] # None
                /\ The(flushed["postgres"]).sample = s)
               => /\ IsSome(pg[p]) /\ IsSome(pg'[p])
                  /\ Values(The(pg'[p])) = Values(The(pg[p]))
                  /\ Values(The(pg'[p])) =
                       <<s.progress_seconds, Decimal(s.progress_percentage.number),
                         s.completed>>
                  /\ \A q \in Pairs \ {p} : pg'[q] = pg[q]]_vars
\* Both stores have just been written twice in a row with one sample, the
\* second time at a later instant than the first.
C12_Witness ==
  /\ \A store \in Stores : flushed[store] # None /\ The(flushed[store]).again
  /\ now = MaxTime
  /\ \E p \in Pairs : \E i \in FbDocs(fb, p) : fb[i].last_watched = Datetime(MaxTime)

\* ------------------------------------------------------- the media claims
\* The exchange last handled is a GET /api/stream/<file_id>.
Streamed == stream.kind = "stream"
\* The request carries a valid bearer principal; a signature that is the one
\* issued for its file id and its expires parameter, not yet expired.
ValidBearer(req) == IsSome(current_user(req.authorization))
ValidSignature(req, t) ==
  /\ req.args.signature # << >> /\ req.args.expires # << >>
  /\ ~IntRaises(req.args.expires)
  /\ t <= int(req.args.expires)
  /\ req.args.signature =
       generate_signed_url(req.file_id,
                           int(req.args.expires) - URL_EXPIRATION_SECONDS).signature
\* The request is one stream_file lets through to the file.
Admitted(req, t) ==
  IF IsSome(parse_signed_params(req.args)) THEN ValidSignature(req, t)
  ELSE ValidBearer(req)
\* The video v1 on disk, its size, and the Range header bytes=a-b.
Video == Disk[<<"media", "c1", "a.mp4">>]
S == Len(Video)
Bytes(a, b) == <<"bytes=">> \o a \o <<"-">> \o b
\* The exchange last handled is an admitted stream request for v1.
StreamedVideo ==
  Streamed /\ stream.req.file_id = <<"v1">> /\ Admitted(stream.req, stream.at)

\* C13 (401 exactly without credentials): a stream request is answered 401 if
\* and only if it carries neither a valid bearer principal nor a valid,
\* unexpired signature for its file id.
C13_Unauthorized ==
  Streamed =>
    (stream.resp.status = 401
       <=> ~(ValidBearer(stream.req) \/ ValidSignature(stream.req, stream.at)))

\* C14 (capability verification): verify_signed_url returns true if and only if
\* the clock is not past the expiration presented and the signature presented
\* is the one generate_signed_url produces for that file id and expiration.
C14_VerifyIsIssuance ==
  (Streamed /\ IsSome(stream.verified)) =>
    LET presented == The(parse_signed_params(stream.req.args))
        result == The(stream.verified)
    IN (~result.raised /\ result.value)
         <=> /\ stream.at <= presented.expiration
             /\ presented.signature =
                  generate_signed_url(stream.req.file_id,
                                      presented.expiration - URL_EXPIRATION_SECONDS).signature
\* The parameters a signed-URL request was answered with are presented for
\* their file at the very second they expire, and verify.
C14_Witness ==
  /\ Streamed /\ IsSome(link) /\ IsSome(stream.verified)
  /\ stream.req.file_id = The(link).file_id
  /\ stream.req.args.signature = The(link).signature
  /\ stream.req.args.expires = Str(The(link).expires)
  /\ stream.at = The(link).expires
  /\ The(stream.verified).value

\* C15 (a valid range): an admitted request for the video with Range
\* bytes=start-end, 0 <= start <= end <= S-1, is answered 206 with
\* Content-Range bytes start-end/S, Content-Length end-start+1 and exactly the
\* bytes start..end of the file.
C15_ValidRange ==
  \A a \in 0..(S - 1) : \A b \in a..(S - 1) :
    (StreamedVideo /\ stream.req.range = Bytes(Str(a), Str(b))) =>
      /\ stream.resp.status = 206
      /\ stream.resp.headers["Content-Range"] =
           <<"bytes", " ">> \o Str(a) \o <<"-">> \o Str(b) \o <<"/">> \o Str(S)
      /\ stream.resp.headers["Content-Length"] = Str(b - a + 1)
      /\ stream.resp.body = SubSeq(Video, a + 1, b + 1)
\* The range bytes=1-(S-2), inside the file and longer than one byte, has been
\* served.
C15_Witness ==
  /\ StreamedVideo /\ S > 3
  /\ stream.req.range = Bytes(Str(1), Str(S - 2))
  /\ stream.resp.status = 206
  /\ stream.resp.body = SubSeq(Video, 2, S - 1)

\* C16 (no Range header): an admitted request for the video without a Range
\* header is answered 200 with the S bytes of the file, Accept-Ranges: bytes,
\* Content-Length S, and no Content-Range header.
C16_WholeFile ==
  (StreamedVideo /\ stream.req.range = << >>) =>
    /\ stream.resp.status = 200
    /\ stream.resp.body = Video
    /\ stream.resp.headers["Accept-Ranges"] = <<"bytes">>
    /\ stream.resp.headers["Content-Length"] = Str(S)
    /\ "Content-Range" \notin DOMAIN stream.resp.headers

\* The Range headers that cannot be satisfied on a file of size S: not
\* numbers, start > end, start >= S.
Unsatisfiable ==
  { Bytes(<<"a">>, <<"b">>), <<"bytes=", "x">>, Bytes(<<"1">>, <<"z">>) }
    \cup { Bytes(Str(r[1]), Str(r[2])) :
              r \in { q \in Around \X Around : q[1] > q[2] \/ q[1] >= S } }
    \cup { Bytes(Str(a), << >>) : a \in { e \in Around : e >= S } }

\* C17 (unsatisfiable ranges): an admitted request for the video whose Range
\* header is not numeric, has start > end or has start >= S is answered 416
\* and streams no bytes.
C17_RangeNotSatisfiable ==
  (StreamedVideo /\ stream.req.range \in Unsatisfiable) =>
    stream.resp.status = 416 /\ stream.resp.body = << >>

\* C18 (open-ended and suffix ranges): bytes=K- with K < S serves the bytes
\* K..S-1 with Content-Range bytes K-(S-1)/S and length S-K; bytes=-N with
\* 0 < N <= S serves the last N bytes of the file.
C18_OpenAndSuffix ==
  StreamedVideo =>
    /\ \A k \in 0..(S - 1) :
         stream.req.range = Bytes(Str(k), << >>) =>
           /\ stream.resp.body = SubSeq(Video, k + 1, S)
           /\ stream.resp.headers["Content-Range"] =
                <<"bytes", " ">> \o Str(k) \o <<"-">> \o Str(S - 1) \o <<"/">> \o Str(S)
           /\ stream.resp.headers["Content-Length"] = Str(S - k)
    /\ \A n \in 1..S :
         stream.req.range = Bytes(<< >>, Str(n)) =>
           stream.resp.body = SubSeq(Video, S - n + 1, S)

\* C19 (nothing served from outside the media root): the file a stream or
\* document request is served from lies under Config.MEDIA_PATH.
C19_InsideMediaRoot ==
  (stream.kind \in {"stream", "document"} /\ stream.resp.opened # << >>) =>
    /\ Len(stream.resp.opened) > Len(MEDIA_PATH.parts)
    /\ SubSeq(stream.resp.opened, 1, Len(MEDIA_PATH.parts)) = MEDIA_PATH.parts

\* The background loop of the worker's thread is live.
LiveLoop == thread \in Threads /\ tpc[thread] \notin {"unborn", "dead"}
\* This step is a call of start(), of stop().
StartCall == Start /\ called' = "start"
StopCall == StopBegin /\ called' = "stop"

\* C20 as stated (Start() on a Stopped worker moves it to Running): whenever the
\* call made last is start(), the worker is Running.
C20_StartRuns == called = "start" => running

\* C20 (worker state machine), with the cache taken into account: start() on a
\* Stopped worker whose cache is enabled sets running with a live loop thread,
\* and on one whose cache is disabled changes nothing; start() on a Running
\* worker changes nothing; stop() on a Running worker clears running; stop()
\* on a Stopped worker changes nothing. A Running worker has a live loop.
C20_StateMachine ==
  [][/\ (StartCall /\ ~running /\ enabled) => (running' /\ LiveLoop')
     /\ (StartCall /\ ~running /\ ~enabled) => (~running' /\ UNCHANGED worker)
     /\ (StartCall /\ running) => (running' /\ UNCHANGED worker)
     /\ (StopCall /\ running) => ~running'
     /\ (StopCall /\ ~running) => (~running' /\ UNCHANGED worker)
     /\ called' = "stop" => ~running'
     /\ running' => LiveLoop']_vars
\* start() was the call made last, a request has been served, and the worker is
\* Running with its loop asleep between two passes.
C20_Witness ==
  /\ called = "start" /\ running /\ LiveLoop /\ tpc[thread] = "sleep"
  /\ cpc = "idle" /\ served > 0

\* C21 (exactly one background loop): at most one thread executes _sync_loop at
\* any time, whatever the calls of start() and stop().
C21_OneLoop ==
  Cardinality({t \in Threads : tpc[t] \notin {"unborn", "dead"}}) <= 1

\* C29 (no two passes overlap): at most one execution of _sync_dirty_progress
\* is in progress at any time.
C29_OnePass ==
  Cardinality({e \in Executors : pass[e].pc # "off"}) <= 1

\* C24 (a marker has its sample): the dirty marker of a pair is set only while
\* the sample of the pair is cached.
C24_MarkerHasSample == \A p \in Pairs : Marked(p) => Cached(p)

\* C22 (stale-marker cleanup): a pass that takes up the marker of a pair whose
\* sample is not cached deletes the marker, writes nothing to the durable
\* store and does not count the entry as failed.
C22_StaleMarkerDropped ==
  [][\A e \in Executors : \A p \in Pairs :
       (TakesUp(e, p) /\ ~Cached(p)) =>
         /\ dirty_key(p[1], p[2]) \notin DOMAIN redis'
         /\ fb' = fb
         /\ pass'[e].failed = pass[e].failed]_vars

\* C25 (the cache holds the most recent write): when a POST completes, the
\* sample cached for its pair, if there is one, is not older than the sample
\* of that POST.
C25_CacheNotOlder ==
  [][\A h \in Handlers :
       (handler[h].pc = "dirty_set" /\ handler'[h].pc = "done") =>
         LET key == cache_key(handler[h].user_id, handler[h].file_id)
         IN key \in DOMAIN redis' =>
              redis'[key].last_updated >= handler[h].last_updated]_vars

\* C26 (dirty-key round trip): the parse a pass makes of the marker key of a
\* pair whose identifiers hold no colon does not raise and yields the pair,
\* and the sample key built from it is the key of the pair's sample.
C26_KeyRoundTrip ==
  [][\A e \in Executors : \A p \in Pairs :
       (TakesUp(e, p) /\ ":" \notin {p[1][i] : i \in 1..Len(p[1])}
                      /\ ":" \notin {p[2][i] : i \in 1..Len(p[2])}) =>
         LET parts == split(dirty_key(p[1], p[2]), 3)
         IN /\ ~DecodeRaises
            /\ Len(parts) = 4 /\ parts[3] = p[1] /\ parts[4] = p[2]
            /\ cache_key(parts[3], parts[4]) = cache_key(p[1], p[2])]_vars

\* C27 (prompt stop): a loop thread that a stop() has stopped, so that it is no
\* longer the worker's thread, starts no new pass.
C27_StoppedLoopIdle ==
  [][\A t \in Threads :
       (tpc[t] = "check" /\ tpc'[t] = "pass") => t = thread]_vars

\* C28 (Content-Length is the body's length): a 200 or 206 answer of the
\* stream handler announces as Content-Length the number of bytes it yields.
C28_LengthIsYielded ==
  (Streamed /\ stream.resp.status \in {200, 206}) =>
    stream.resp.headers["Content-Length"] = Str(Len(stream.resp.body))

C30_NoChangeLost ==
  /\ \A t \in WatchTimes :
       [](t \in watch.events => <>(\E s \in watch.scans : s >= t))
  /\ [](\A s1 \in watch.scans : \A s2 \in watch.scans :
          s1 < s2 => s2 - s1 >= debounce_seconds)

\* C6 (cache-disabled fallback): the step by which a POST for a catalogued file
\* answers with the cache disabled has, unless PostgreSQL is failing, left the
\* row of the pair in the durable store with the body's values; the cache holds
\* no entry and no marker, and no worker thread was ever started.
C6_DisabledFallback ==
  [][\A h \in Handlers :
       (handler[h].pc = "fallback" /\ handler'[h].pc = "done")
         => LET r == handler[h]
                p == <<r.user_id, r.file_id>>
            IN /\ ~enabled
               /\ DOMAIN redis' = {}
               /\ born = 0 /\ ~running
               /\ handler'[h].resp = Some(Success)
               /\ ~outage =>
                    /\ IsSome(pg'[p])
                    /\ Values(The(pg'[p])) =
                         <<r.body.progress_seconds,
                           Decimal(r.body.progress_percentage.number),
                           r.body.completed>>]_vars
\* A POST has answered success through the fallback and the row is there.
C6_Witness ==
  /\ ~enabled
  /\ \E h \in Handlers :
       /\ Answered(h, "post") /\ handler[h].resp = Some(Success)
  /\ pg[<<<<"u1">>, <<"f1">>>>] # None
  /\ Values(The(pg[<<<<"u1">>, <<"f1">>>>])) = <<120, Decimal(50), FALSE>>

\* C7 (the cache is no correctness dependency of the write path): when, with
\* the cache enabled, the Set of the sample or the Set of its marker fails, the
\* handler goes on to the direct durable write.
C7_SetFailureFallsThrough ==
  [][\A h \in Handlers :
       /\ (handler[h].pc = "cache_set" /\ handler'[h].pc # "cache_set"
           /\ ~handler'[h].set_ok)
            => handler'[h].pc = "fallback"
       /\ (handler[h].pc = "dirty_set" /\ handler'[h].pc # "dirty_set"
           /\ ~Marked(<<handler[h].user_id, handler[h].file_id>>)')
            => handler'[h].pc = "fallback"]_vars

C9_ReadYourWrite ==
  [][\A h \in Handlers, p \in Pairs :
       (/\ Begins(h) /\ handler'[h].kind = "get"
        /\ enabled /\ ~outage
        /\ IsSome(written[p]) /\ The(written[p]).by = "done")
         => /\ ~(/\ handler'[h].pc = "pg_read"
                 /\ <<handler'[h].user_id, handler'[h].file_id>> = p)
            /\ (/\ handler'[h].pc = "done"
                /\ The(handler'[h].resp).body.user_id = p[1]
                /\ The(handler'[h].resp).body.file_id = p[2])
                 => Values(The(handler'[h].resp).body) = Values(The(written[p]).body)]_vars
\* A GET has answered from the cache with the values u1 posted for f1.
C9_Witness ==
  /\ enabled
  /\ IsSome(written[<<<<"u1">>, <<"f1">>>>])
  /\ The(written[<<<<"u1">>, <<"f1">>>>]).by = "done"
  /\ The(written[<<<<"u1">>, <<"f1">>>>]).body.progress_seconds = 120
  /\ \E h \in Handlers :
       /\ Answered(h, "get")
       /\ DOMAIN The(handler[h].resp).body # {}
       /\ The(handler[h].resp).body.user_id = <<"u1">>
       /\ Values(The(handler[h].resp).body) = <<120, Number(50), FALSE>>

\* C10 (GET never fails): whatever the cache, PostgreSQL and the legacy
\* lookup did (hit, miss or failure), a finished GET has answered 200 with a
\* found sample or with the empty default object.
C10_GetNeverFails ==
  \A h \in Handlers :
    Answered(h, "get")
      => LET resp == The(handler[h].resp)
         IN /\ resp.status = 200
            /\ \/ DOMAIN resp.body = {}
               \/ {"user_id", "file_id", "progress_seconds", "progress_percentage",
                   "completed"} \subseteq DOMAIN resp.body
\* A GET has answered the row of PostgreSQL for a pair whose sample is in the
\* enabled cache: the cache read failed and the handler went on to the next tier.
C10_Witness ==
  /\ enabled
  /\ \E h \in Handlers :
       /\ Answered(h, "get")
       /\ "updated_at" \in DOMAIN The(handler[h].resp).body
       /\ Cached(<<The(handler[h].resp).body.user_id,
                   The(handler[h].resp).body.file_id>>)

====
